---- MODULE Spec2Model ----
(***************************************************************************)
(* The desktop Terminal component (src/unnamed/part_001): a terminal       *)
(* surface bridged to a remote PTY over a WebSocket.  Every mount of the   *)
(* component is an instance with its own closure variables ws and term;    *)
(* the host keeps the LocalPTY record of a session between mounts.         *)
(*                                                                         *)
(* Strings written to the surface are modelled as sequences of lines, so   *)
(* that the buffer has a length, a viewport and a scroll position.         *)
(***************************************************************************)
EXTENDS Integers, Sequences, FiniteSets, TLC

(* ---------------------------------------------------------------- bounds *)
MaxLines  == 2          \* lines a surface buffer holds in the model
MaxOut    == 2          \* entries of the log of what went out to the remote side

\* two mounts of the component: a view, and the view that reattaches after it
Instances == {1, 2}
Sessions  == {"s1"}
Lines     == {"a", "b"}                 \* one line of remote output
Msgs      == {<<l>> : l \in Lines}      \* a message carries one line
Inputs    == {<<"x">>, <<"y">>}         \* one chunk of keyboard input
\* {cols, rows} the container can fit; cols and rows differ in every pair
FitSizes  == {[cols |-> 4, rows |-> 1], [cols |-> 3, rows |-> 2]}

Max(a, b) == IF a >= b THEN a ELSE b
Min(a, b) == IF a <= b THEN a ELSE b

VARIABLES
  host,        \* which optional callbacks the host passes in props
  pc,          \* per instance: "unmounted" | "mounted" | "aborted" | "cleaned"
  pty,         \* per instance: props.pty, the LocalPTY it was mounted with
  ws,          \* per instance: readyState of its WebSocket ("NONE" = undefined)
  term,        \* per instance: its terminal surface
  store,       \* per session id: the LocalPTY the host holds
  wire,        \* what went out to the remote side so far: <<connection, kind>>
  last,        \* the event the last step handled
  did,         \* the operations the last step performed, in order
  windowListeners, \* instances whose "resize" listener is registered on window
  sdk,         \* per instance: useSDK(), the server url and directory it works under
  url,         \* per instance: the url its WebSocket was created with
  historyCache, \* shell-history.ts: the module's historyCache
  historyFile,  \* ~/.opencode_shell_history
  ret,          \* what the last call of a function returned or threw
  ed            \* Editor: the call in progress, the renderer, the temporary file

\* the variables of the Terminal component, but for the last event
terminalVars == <<host, pc, pty, ws, term, store, wire, did, windowListeners, sdk, url>>

\* the variables of the command-line modules
cliVars == <<historyCache, historyFile, ret, ed>>

vars == <<host, pc, pty, ws, term, store, wire, last, did, windowListeners, sdk, url,
          historyCache, historyFile, ret, ed>>

\* strings of the command-line modules are sequences of one-character strings
NoRet == [kind |-> "none", val |-> <<>>]

\* let historyCache: string[] | null = null
NullCache == [set |-> FALSE, list |-> <<>>]

NoFile == [exists |-> FALSE, content |-> <<>>]

\* no call of the Editor yet: the renderer runs, there is no temporary file
EdIdle == [fn |-> "none", pc |-> "idle", editor |-> <<>>, cmd |-> <<>>,
           suspended |-> FALSE, tmp |-> FALSE, content |-> <<>>, ops |-> <<>>]

\* no command-line module has run
CliIdle ==
  /\ historyCache = NullCache
  /\ historyFile = NoFile
  /\ ret = NoRet
  /\ ed = EdIdle

(* ------------------------------------------------------ terminal surface *)
(* The surface is the terminal library's Term; the library and the         *)
(* SerializeAddon are not among the sources, so the surface follows the    *)
(* contract the specification gives it: the scroll position is the top     *)
(* visible line counted from the top of the buffer, scrollToLine clamps to *)
(* [0, totalLines - viewportHeight], and output written while the viewport *)
(* shows the last line keeps it there.  The scrollback limit of 10_000     *)
(* lines is far above MaxLines and never reached.                          *)
NoTerm == [state |-> "none", cols |-> 0, rows |-> 0, lines |-> <<>>, viewportY |-> 0]

\* new Term({... scrollback: 10_000}): the library's default grid, empty
NewTerm == [state |-> "live", cols |-> 80, rows |-> 24, lines |-> <<>>, viewportY |-> 0]

\* the largest valid top line: totalLines - viewportHeight, not below 0
MaxTop(lines, rows) == Max(0, Len(lines) - rows)

\* the viewport shows the last line and follows new output
AtBottom(t) == t.viewportY = MaxTop(t.lines, t.rows)

TermResize(t, c, r) ==
  [t EXCEPT !.cols = c, !.rows = r,
            !.viewportY = IF AtBottom(t) THEN MaxTop(t.lines, r)
                          ELSE Min(t.viewportY, MaxTop(t.lines, r))]

TermReset(t) == [t EXCEPT !.lines = <<>>, !.viewportY = 0]

TermWrite(t, data) ==
  LET new == t.lines \o data IN
  [t EXCEPT !.lines = new,
            !.viewportY = IF AtBottom(t) THEN MaxTop(new, t.rows) ELSE t.viewportY]

TermScrollToLine(t, n) ==
  [t EXCEPT !.viewportY = Max(0, Min(n, MaxTop(t.lines, t.rows)))]

TermDispose(t) == [NoTerm EXCEPT !.state = "disposed"]

\* SerializeAddon.serialize(): a string that reproduces the buffer when written
Serialize(t) == IF t.state = "live" THEN t.lines ELSE <<>>

(* ------------------------------------------------------------- LocalPTY *)
NewPty(sid) ==
  [id |-> sid, title |-> "t", buffer |-> <<>>, rows |-> 0, cols |-> 0, scrollY |-> 0]

NoPty == NewPty("")

(* ------------------------------------------------- events and operations *)
Event(e, i, a) == [ev |-> e, inst |-> i, arg |-> a]

NoEvent == Event("init", 0, <<>>)

\* one operation a handler performs: on the surface, on the connection, on the
\* out-of-band resize channel (sdk.client.pty.update) or a host callback
Op(name, a, b, data) == [op |-> name, a |-> a, b |-> b, data |-> data]

SurfaceOps == {"resize", "fit.resize", "reset", "write", "scrollToLine"}

ApplyOp(t, o) ==
  CASE o.op = "resize"       -> TermResize(t, o.a, o.b)
    [] o.op = "fit.resize"   -> TermResize(t, o.a, o.b)
    [] o.op = "reset"        -> TermReset(t)
    [] o.op = "write"        -> TermWrite(t, o.data)
    [] o.op = "scrollToLine" -> TermScrollToLine(t, o.a)
    [] o.op = "dispose"      -> TermDispose(t)
    [] OTHER                 -> t

RECURSIVE ApplyOps(_, _)
ApplyOps(t, ops) ==
  IF ops = <<>> THEN t ELSE ApplyOps(ApplyOp(t, Head(ops)), Tail(ops))

\* what a step's operations put on the wire: <<connection, kind>> per send or report
RECURSIVE WireOf(_, _)
WireOf(i, ops) ==
  IF ops = <<>> THEN <<>>
  ELSE (IF Head(ops).op \in {"send", "update.open", "update.resize"}
        THEN <<(<<i, Head(ops).op>>)>> ELSE <<>>) \o WireOf(i, Tail(ops))

(* ------------------------------------------------------------ WebSocket *)
(* readyState follows the browser's WebSocket: CONNECTING, then OPEN or a  *)
(* failure; close() moves a connecting or open socket to CLOSING, after    *)
(* which only "error" and "close" are dispatched; a failed connection      *)
(* dispatches "error" and then "close".                                    *)
\* WebSocket.close(): starts the closing handshake unless already closing or closed
WsCloseCall(state) == IF state \in {"CONNECTING", "OPEN"} THEN "CLOSING" ELSE state

\* the characters of a string are one-character strings; "/" and " " stand for
\* the characters encodeURIComponent escapes, letters for those it keeps
EncodeChar(c) ==
  CASE c = "/" -> <<"%", "2", "F">>
    [] c = " " -> <<"%", "2", "0">>
    [] OTHER   -> <<c>>

RECURSIVE EncodeURIComponent(_)
EncodeURIComponent(str) ==
  IF str = <<>> THEN <<>> ELSE EncodeChar(Head(str)) \o EncodeURIComponent(Tail(str))

\* the url naming the session only
ConnectUrl_IdOnly(k, id) == <<k.url, "/pty/", id, "/connect">>

\* line 26: the url of the WebSocket; the server url and the session id are
\* kept whole, the directory is a string of characters
ConnectUrl(k, id) ==
  <<k.url, "/pty/", id, "/connect?directory=">> \o EncodeURIComponent(k.directory)

\* the contexts a view can be created in
Sdks ==
  [url : {"http://h1", "http://h2"}, directory : {<<"/", "a">>, <<"/", "a", " ", "b">>}]

DefaultSdk == [url |-> "http://h1", directory |-> <<"/", "a">>]

(* ------------------------------------------------------------- handlers *)
\* the restore sizing the surface whether or not there is a buffer
RestoreOps_ResizeAlways(p) ==
  (IF p.rows # 0 /\ p.cols # 0 THEN <<Op("resize", p.cols, p.rows, <<>>)>> ELSE <<>>)
  \o (IF p.buffer # <<>>
      THEN <<Op("reset", 0, 0, <<>>)>>
           \o <<Op("write", 0, 0, p.buffer)>>
           \o (IF p.scrollY # 0 THEN <<Op("scrollToLine", p.scrollY, 0, <<>>)>> ELSE <<>>)
      ELSE <<>>)

\* the restore writing the buffer before it sizes the surface
RestoreOps_WriteFirst(p) ==
  IF p.buffer # <<>>
  THEN <<Op("reset", 0, 0, <<>>)>>
       \o <<Op("write", 0, 0, p.buffer)>>
       \o (IF p.rows # 0 /\ p.cols # 0 THEN <<Op("resize", p.cols, p.rows, <<>>)>> ELSE <<>>)
       \o (IF p.scrollY # 0 THEN <<Op("scrollToLine", p.scrollY, 0, <<>>)>> ELSE <<>>)
  ELSE <<>>

\* lines 54-63: restore the saved buffer
RestoreOps(p) ==
  IF p.buffer # <<>>
  THEN (IF p.rows # 0 /\ p.cols # 0 THEN <<Op("resize", p.cols, p.rows, <<>>)>> ELSE <<>>)
       \o <<Op("reset", 0, 0, <<>>)>>
       \o <<Op("write", 0, 0, p.buffer)>>
       \o (IF p.scrollY # 0 THEN <<Op("scrollToLine", p.scrollY, 0, <<>>)>> ELSE <<>>)
  ELSE <<>>

\* line 67: fitAddon.fit() resizes the surface when the container fits another grid
FitOps(t, f) ==
  IF t.cols # f.cols \/ t.rows # f.rows
  THEN <<Op("fit.resize", f.cols, f.rows, <<>>)>> ELSE <<>>

\* term.onData testing a socket shared by the views instead of its own
OnDataHandler_AnyOpen(i, d) ==
  IF \E j \in DOMAIN ws : ws[j] = "OPEN" THEN <<Op("send", 0, 0, d)>> ELSE <<>>

\* term.onData holding input back only while the socket is connecting
OnDataHandler_SendsUnlessConnecting(i, d) ==
  IF ws[i] # "NONE" /\ ws[i] # "CONNECTING" THEN <<Op("send", 0, 0, d)>> ELSE <<>>

\* term.onData without the readyState test
OnDataHandler_Unguarded(i, d) == <<Op("send", 0, 0, d)>>

\* lines 83-87: term.onData
OnDataHandler(i, d) ==
  IF ws[i] # "NONE" /\ ws[i] = "OPEN" THEN <<Op("send", 0, 0, d)>> ELSE <<>>

\* term.onResize remembering nothing of the readyState
OnResizeHandler_Unguarded(i, size) == <<Op("update.resize", size.cols, size.rows, <<>>)>>

\* lines 70-82: term.onResize
OnResizeHandler(i, size) ==
  IF ws[i] # "NONE" /\ ws[i] = "OPEN"
  THEN <<Op("update.resize", size.cols, size.rows, <<>>)>> ELSE <<>>

\* term.onKey telling the host only while the socket is open
OnKeyHandler_OnlyWhenOpen(i, key) ==
  IF key = "Enter" /\ ws[i] = "OPEN" /\ host.onSubmit
  THEN <<Op("onSubmit", 0, 0, <<>>)>> ELSE <<>>

\* lines 88-92: term.onKey
OnKeyHandler(i, key) ==
  IF key = "Enter" /\ host.onSubmit THEN <<Op("onSubmit", 0, 0, <<>>)>> ELSE <<>>

\* the open handler reporting the grid the session was saved with
OpenHandler_SavedGrid(i) == <<Op("update.open", pty[i].cols, pty[i].rows, <<>>)>>

\* lines 96-107: ws "open"
OpenHandler(i) == <<Op("update.open", term[i].cols, term[i].rows, <<>>)>>

\* the message handler dropping a message that repeats the last line shown
MessageHandler_Dedup(i, data) ==
  IF term[i].lines # <<>> /\ <<term[i].lines[Len(term[i].lines)]>> = data
  THEN <<>> ELSE <<Op("write", 0, 0, data)>>

\* lines 108-110: ws "message"
MessageHandler(i, data) == <<Op("write", 0, 0, data)>>

\* lines 111-114: ws "error"
ErrorHandler(i) == IF host.onConnectError THEN <<Op("onConnectError", 0, 0, <<>>)>> ELSE <<>>

\* the close handler reporting the close as an error
CloseHandler_ReportsError(i) ==
  IF host.onConnectError THEN <<Op("onConnectError", 0, 0, <<>>)>> ELSE <<>>

\* lines 115-117: ws "close"
CloseHandler(i) == <<>>

\* lines 69-117: the listeners onMount registers, in the order it registers them
RegisterOps ==
  <<Op("window.onresize", 0, 0, <<>>), Op("term.onResize", 0, 0, <<>>),
    Op("term.onData", 0, 0, <<>>), Op("term.onKey", 0, 0, <<>>),
    Op("ws.onopen", 0, 0, <<>>), Op("ws.onmessage", 0, 0, <<>>),
    Op("ws.onerror", 0, 0, <<>>), Op("ws.onclose", 0, 0, <<>>)>>

\* onMount creating the WebSocket after the surface is restored and focused
MountOps_ConnectAfterFocus(p, f) ==
  LET pre == <<Op("term.new", 0, 0, <<>>)>> \o RestoreOps(p)
             \o <<Op("focus", 0, 0, <<>>), Op("ws.new", 0, 0, <<>>)>>
  IN pre \o FitOps(ApplyOps(NewTerm, pre), f) \o RegisterOps

\* lines 26-117: what onMount does, in order, for the session p it is given
\* and the grid f its container fits
MountOps(p, f) ==
  LET pre == <<Op("ws.new", 0, 0, <<>>), Op("term.new", 0, 0, <<>>)>> \o RestoreOps(p)
             \o <<Op("focus", 0, 0, <<>>)>>
  IN pre \o FitOps(ApplyOps(NewTerm, pre), f) \o RegisterOps

\* the socket's listeners being added in a later turn, once the socket is open
Registered_AfterOpen(i) == pc[i] \in {"mounted", "cleaned"} /\ ws[i] = "OPEN"

\* the connection and surface handlers of lines 70-117 are registered
Registered(i) == pc[i] \in {"mounted", "cleaned"}

\* the host mounts one view at a time: the earlier views are unmounted
Sequential(i) == \A j \in Instances : j < i => pc[j] \in {"cleaned", "abandoned"}

Init ==
  /\ host \in [onCleanup : BOOLEAN, onConnectError : BOOLEAN]
  /\ pc = [i \in Instances |-> "unmounted"]
  /\ pty = [i \in Instances |-> NoPty]
  /\ ws = [i \in Instances |-> "NONE"]
  /\ term = [i \in Instances |-> NoTerm]
  /\ store = [s \in Sessions |-> NewPty(s)]
  /\ wire = <<>>
  /\ last = NoEvent
  /\ did = <<>>
  /\ windowListeners = {}
  /\ sdk = [i \in Instances |-> DefaultSdk]
  /\ url = [i \in Instances |-> <<>>]
  /\ CliIdle

(* --------------------------------------------------------------- mount *)
\* onMount, lines 25-118: one synchronous turn; f is the grid the container fits
OnMount(i, sid, f) ==
  /\ pc[i] = "unmounted"
  /\ LET p   == store[sid]
         ops == MountOps(p, f)
     IN /\ pty' = [pty EXCEPT ![i] = p]
        /\ ws' = [ws EXCEPT ![i] = "CONNECTING"]
        /\ term' = [term EXCEPT ![i] = ApplyOps(NewTerm, ops)]
        /\ did' = ops
  /\ url' = [url EXCEPT ![i] = ConnectUrl(sdk[i], sid)]
  /\ pc' = [pc EXCEPT ![i] = "mounted"]
  /\ windowListeners' = windowListeners \cup {i}
  /\ last' = Event("mount", i, <<f.cols, f.rows>>)
  /\ UNCHANGED <<host, store, wire, sdk, cliVars>>

Mount(i, sid, f) == Sequential(i) /\ OnMount(i, sid, f)

(* ------------------------------------------------------------- cleanup *)
\* the host's props.onCleanup keeps the record it is handed, by session id
HostSave(st, p) == [st EXCEPT ![p.id] = p]

\* onCleanup closing the connection only inside the capture branch
CleanupSteps_CloseOnlyIfCaptured(i) ==
  (IF pc[i] # "unmounted" /\ host.onCleanup
   THEN <<"serialize", "onCleanup">> \o (IF ws[i] # "NONE" THEN <<"ws.close">> ELSE <<>>)
   ELSE <<>>)
  \o (IF term[i].state # "none" THEN <<"dispose">> ELSE <<>>)

\* onCleanup leaving the connection as it is
CleanupSteps_NoDisconnect(i) ==
  (IF pc[i] # "unmounted" /\ host.onCleanup THEN <<"serialize", "onCleanup">> ELSE <<>>)
  \o (IF term[i].state # "none" THEN <<"dispose">> ELSE <<>>)

\* onCleanup tearing down before it captures
CleanupSteps_TeardownFirst(i) ==
  (IF ws[i] # "NONE" THEN <<"ws.close">> ELSE <<>>)
  \o (IF term[i].state # "none" THEN <<"dispose">> ELSE <<>>)
  \o (IF pc[i] # "unmounted" /\ host.onCleanup THEN <<"serialize", "onCleanup">> ELSE <<>>)

\* lines 120-133: the steps onCleanup takes, in order
CleanupSteps(i) ==
  (IF pc[i] # "unmounted" /\ host.onCleanup THEN <<"serialize", "onCleanup">> ELSE <<>>)
  \o (IF ws[i] # "NONE" THEN <<"ws.close">> ELSE <<>>)
  \o (IF term[i].state # "none" THEN <<"dispose">> ELSE <<>>)

\* the capture building the record from the session id alone
Capture_FreshRecord(p, buffer, t) ==
  [id |-> p.id, title |-> "", buffer |-> buffer, rows |-> t.rows, cols |-> t.cols,
   scrollY |-> t.viewportY]

\* the capture dropping the snapshot
Capture_NoBuffer(p, buffer, t) ==
  [p EXCEPT !.buffer = <<>>, !.rows = t.rows, !.cols = t.cols, !.scrollY = t.viewportY]

\* lines 123-129: the record handed to props.onCleanup
Capture(p, buffer, t) ==
  [p EXCEPT !.buffer = buffer, !.rows = t.rows, !.cols = t.cols,
            !.scrollY = t.viewportY]

ExecStep(c, step) ==
  CASE step = "serialize" -> [c EXCEPT !.buffer = Serialize(c.term)]
    [] step = "onCleanup" -> [c EXCEPT !.store = HostSave(c.store, Capture(c.pty, c.buffer, c.term))]
    [] step = "ws.close"  -> [c EXCEPT !.ws = WsCloseCall(c.ws)]
    [] step = "dispose"   -> [c EXCEPT !.term = TermDispose(c.term)]
    [] OTHER              -> c

RECURSIVE ExecSteps(_, _)
ExecSteps(c, steps) ==
  IF steps = <<>> THEN c ELSE ExecSteps(ExecStep(c, Head(steps)), Tail(steps))

OnCleanup(i) ==
  /\ pc[i] \in {"unmounted", "mounted", "aborted"}
  /\ LET steps == CleanupSteps(i)
         c0 == [pty |-> pty[i], term |-> term[i], ws |-> ws[i], store |-> store,
                buffer |-> <<>>]
         c  == ExecSteps(c0, steps)
     IN /\ term' = [term EXCEPT ![i] = c.term]
        /\ ws' = [ws EXCEPT ![i] = c.ws]
        /\ store' = c.store
        /\ did' = [k \in 1..Len(steps) |-> Op(steps[k], 0, 0, <<>>)]
  /\ pc' = [pc EXCEPT ![i] = IF pc[i] = "aborted" THEN "abandoned" ELSE "cleaned"]
  /\ last' = Event("cleanup", i, <<>>)
  /\ UNCHANGED <<host, pty, wire, windowListeners, sdk, url, cliVars>>

Cleanup(i) == Sequential(i) /\ OnCleanup(i)

(* ------------------------------------------------------ surface events *)
\* the user types: the surface emits onData
OnData(i, d) ==
  /\ pc[i] = "mounted"
  /\ LET ops == OnDataHandler(i, d)
     IN /\ Len(wire) + Len(WireOf(i, ops)) <= MaxOut
        /\ wire' = wire \o WireOf(i, ops)
        /\ did' = ops
  /\ last' = Event("onData", i, d)
  /\ UNCHANGED <<host, pc, pty, ws, term, store, windowListeners, sdk, url, cliVars>>

\* the container changes size: observeResize / the window listener call fit(),
\* which resizes the surface, which emits onResize
ContainerResize(i, f) ==
  /\ pc[i] = "mounted"
  /\ FitOps(term[i], f) # <<>>
  /\ LET ops == FitOps(term[i], f) \o OnResizeHandler(i, f)
     IN /\ Len(wire) + Len(WireOf(i, ops)) <= MaxOut
        /\ term' = [term EXCEPT ![i] = ApplyOps(term[i], ops)]
        /\ wire' = wire \o WireOf(i, ops)
        /\ did' = ops
  /\ last' = Event("onResize", i, <<f.cols, f.rows>>)
  /\ UNCHANGED <<host, pc, pty, ws, store, windowListeners, sdk, url, cliVars>>

\* the user scrolls the viewport to top line n
UserScroll(i, n) ==
  /\ pc[i] = "mounted"
  /\ n <= MaxTop(term[i].lines, term[i].rows)
  /\ n # term[i].viewportY
  /\ term' = [term EXCEPT ![i] = TermScrollToLine(term[i], n)]
  /\ did' = <<>>
  /\ last' = Event("scroll", i, <<>>)
  /\ UNCHANGED <<host, pc, pty, ws, store, wire, windowListeners, sdk, url, cliVars>>

(* --------------------------------------------------- connection events *)
\* the connection is established: readyState becomes OPEN, "open" is dispatched
WsOpen(i) ==
  /\ ws[i] = "CONNECTING"
  /\ LET ops == IF Registered(i) THEN OpenHandler(i) ELSE <<>>
     IN /\ Len(wire) + Len(WireOf(i, ops)) <= MaxOut
        /\ wire' = wire \o WireOf(i, ops)
        /\ did' = ops
  /\ ws' = [ws EXCEPT ![i] = "OPEN"]
  /\ last' = Event("wsOpen", i, <<>>)
  /\ UNCHANGED <<host, pc, pty, term, store, windowListeners, sdk, url, cliVars>>

\* a message arrives; it is dispatched only while readyState is OPEN
WsMessage(i, m) ==
  /\ ws[i] = "OPEN"
  /\ Len(term[i].lines) + Len(m) <= MaxLines
  /\ LET ops == IF Registered(i) THEN MessageHandler(i, m) ELSE <<>>
     IN /\ term' = [term EXCEPT ![i] = ApplyOps(term[i], ops)]
        /\ did' = ops
  /\ last' = Event("wsMessage", i, m)
  /\ UNCHANGED <<host, pc, pty, ws, store, wire, windowListeners, sdk, url, cliVars>>

\* the connection fails: "error" is dispatched, then "close", in one task
WsError(i) ==
  /\ ws[i] \in {"CONNECTING", "OPEN", "CLOSING"}
  /\ ws' = [ws EXCEPT ![i] = "CLOSED"]
  /\ did' = IF Registered(i) THEN ErrorHandler(i) \o CloseHandler(i) ELSE <<>>
  /\ last' = Event("wsError", i, <<>>)
  /\ UNCHANGED <<host, pc, pty, term, store, wire, windowListeners, sdk, url, cliVars>>

\* the connection closes cleanly: only "close" is dispatched
WsClose(i) ==
  /\ ws[i] \in {"OPEN", "CLOSING"}
  /\ ws' = [ws EXCEPT ![i] = "CLOSED"]
  /\ did' = IF Registered(i) THEN CloseHandler(i) ELSE <<>>
  /\ last' = Event("wsClose", i, <<>>)
  /\ UNCHANGED <<host, pc, pty, term, store, wire, windowListeners, sdk, url, cliVars>>

(* ------------------------------------------------------- window events *)
\* line 69: the window is resized after the view was unmounted; the listener is
\* still on window and calls fitAddon.fit() of the disposed surface
WindowResize(i) ==
  /\ i \in windowListeners
  /\ pc[i] = "cleaned"
  /\ did' = <<Op("fit", 0, 0, <<>>)>>
  /\ last' = Event("windowResize", i, <<>>)
  /\ UNCHANGED <<host, pc, pty, ws, term, store, wire, windowListeners, sdk, url, cliVars>>

Next ==
  \/ \E i \in Instances, s \in Sessions, f \in FitSizes : Mount(i, s, f)
  \/ \E i \in Instances : Cleanup(i)
  \/ \E i \in Instances, d \in Inputs : OnData(i, d)
  \/ \E i \in Instances, f \in FitSizes : ContainerResize(i, f)
  \/ \E i \in Instances, n \in 0..MaxLines : UserScroll(i, n)
  \/ \E i \in Instances : WsOpen(i)
  \/ \E i \in Instances, m \in Msgs : WsMessage(i, m)
  \/ \E i \in Instances : WsError(i)
  \/ \E i \in Instances : WsClose(i)
  \/ \E i \in Instances : WindowResize(i)

Spec == Init /\ [][Next]_vars

(* ------------------------------------------------------ concurrent views *)
\* two views shown side by side, each with a session of its own
ConcurrentSessions == {"s1", "s2"}

\* the host passes both callbacks; both containers fit the same grid and keep it
InitConcurrent ==
  /\ host = [onCleanup |-> TRUE, onConnectError |-> TRUE]
  /\ pc = [i \in Instances |-> "unmounted"]
  /\ pty = [i \in Instances |-> NoPty]
  /\ ws = [i \in Instances |-> "NONE"]
  /\ term = [i \in Instances |-> NoTerm]
  /\ store = [s \in ConcurrentSessions |-> NewPty(s)]
  /\ wire = <<>>
  /\ last = NoEvent
  /\ did = <<>>
  /\ windowListeners = {}
  /\ sdk = [i \in Instances |-> DefaultSdk]
  /\ url = [i \in Instances |-> <<>>]
  /\ CliIdle

ConcurrentFit == [cols |-> 4, rows |-> 1]

\* the host mounts a view for a session no mounted view shows
ConcurrentMount(i, sid) ==
  /\ \A j \in Instances \ {i} : pc[j] = "mounted" => pty[j].id # sid
  /\ OnMount(i, sid, ConcurrentFit)

NextConcurrent ==
  \/ \E i \in Instances, s \in ConcurrentSessions : ConcurrentMount(i, s)
  \/ \E i \in Instances : OnCleanup(i)
  \/ \E i \in Instances, d \in Inputs : OnData(i, d)
  \/ \E i \in Instances : WsOpen(i)
  \/ \E i \in Instances, m \in Msgs : WsMessage(i, m)
  \/ \E i \in Instances : WsError(i)
  \/ \E i \in Instances : WsClose(i)
  \/ \E i \in Instances : WindowResize(i)

SpecConcurrent == InitConcurrent /\ [][NextConcurrent]_vars

(* ------------------------------------------------- a restore that throws *)
\* onMount when the k-th call of the restore block (lines 54-63) throws: there
\* is no try/catch, so the exception ends onMount there; the calls before it
\* took effect, lines 65-117 are not reached
MountRestoreThrows(i, sid, k) ==
  /\ pc[i] = "unmounted"
  /\ Sequential(i)
  /\ k \in 1..Len(RestoreOps(store[sid]))
  /\ LET p   == store[sid]
         ops == <<Op("ws.new", 0, 0, <<>>), Op("term.new", 0, 0, <<>>)>>
                \o SubSeq(RestoreOps(p), 1, k - 1)
     IN /\ pty' = [pty EXCEPT ![i] = p]
        /\ ws' = [ws EXCEPT ![i] = "CONNECTING"]
        /\ term' = [term EXCEPT ![i] = ApplyOps(NewTerm, ops)]
        /\ did' = Append(ops, Op("throw", k, 0, <<>>))
  /\ url' = [url EXCEPT ![i] = ConnectUrl(sdk[i], sid)]
  /\ pc' = [pc EXCEPT ![i] = "aborted"]
  /\ last' = Event("mountThrows", i, <<>>)
  /\ UNCHANGED <<host, store, wire, windowListeners, sdk, cliVars>>

NextRestoreThrows ==
  \/ Next
  \/ \E i \in Instances, s \in Sessions, k \in 1..4 : MountRestoreThrows(i, s, k)

SpecRestoreThrows == Init /\ [][NextRestoreThrows]_vars

(* ------------------------------------------------ views of several contexts *)
\* each view is created under a context of its own
InitAddress ==
  /\ host = [onCleanup |-> TRUE, onConnectError |-> TRUE]
  /\ pc = [i \in Instances |-> "unmounted"]
  /\ pty = [i \in Instances |-> NoPty]
  /\ ws = [i \in Instances |-> "NONE"]
  /\ term = [i \in Instances |-> NoTerm]
  /\ store = [s \in ConcurrentSessions |-> NewPty(s)]
  /\ wire = <<>>
  /\ last = NoEvent
  /\ did = <<>>
  /\ windowListeners = {}
  /\ sdk \in [Instances -> Sdks]
  /\ url = [i \in Instances |-> <<>>]
  /\ CliIdle

NextAddress ==
  \/ \E i \in Instances, s \in ConcurrentSessions : Mount(i, s, ConcurrentFit)
  \/ \E i \in Instances : Cleanup(i)

SpecAddress == InitAddress /\ [][NextAddress]_vars

(* ------------------------------------------------------------ key events *)
\* key.key of the events the surface emits
Keys == {"Enter", "a"}

\* the user presses a key: the surface emits onKey
OnKey(i, key) ==
  /\ pc[i] = "mounted"
  /\ did' = OnKeyHandler(i, key)
  /\ last' = Event("onKey", i, <<key>>)
  /\ UNCHANGED <<host, pc, pty, ws, term, store, wire, windowListeners, sdk, url, cliVars>>

\* the host passes onCleanup and onConnectError, and may pass onSubmit
InitKeys ==
  /\ host \in [onCleanup : {TRUE}, onConnectError : {TRUE}, onSubmit : BOOLEAN]
  /\ pc = [i \in Instances |-> "unmounted"]
  /\ pty = [i \in Instances |-> NoPty]
  /\ ws = [i \in Instances |-> "NONE"]
  /\ term = [i \in Instances |-> NoTerm]
  /\ store = [s \in Sessions |-> NewPty(s)]
  /\ wire = <<>>
  /\ last = NoEvent
  /\ did = <<>>
  /\ windowListeners = {}
  /\ sdk = [i \in Instances |-> DefaultSdk]
  /\ url = [i \in Instances |-> <<>>]
  /\ CliIdle

NextKeys ==
  \/ \E i \in Instances, s \in Sessions : Mount(i, s, ConcurrentFit)
  \/ \E i \in Instances : Cleanup(i)
  \/ \E i \in Instances, d \in Inputs : OnData(i, d)
  \/ \E i \in Instances, k \in Keys : OnKey(i, k)
  \/ \E i \in Instances : WsOpen(i)
  \/ \E i \in Instances, m \in Msgs : WsMessage(i, m)
  \/ \E i \in Instances : WsError(i)
  \/ \E i \in Instances : WsClose(i)

SpecKeys == InitKeys /\ [][NextKeys]_vars

(* ========================================================== shell history *)
(* src/packages/opencode/src/cli/cmd/tui/component/prompt/shell-history.ts  *)
(* A command is a string, a sequence of characters; the history is a list   *)
(* of commands, most recent first, cached in the module and written to the  *)
(* history file one command per line.                                       *)

\* the Terminal component takes no part in the command-line modules
TerminalIdle ==
  /\ host = [onCleanup |-> TRUE, onConnectError |-> TRUE, onSubmit |-> FALSE]
  /\ pc = [i \in Instances |-> "unmounted"]
  /\ pty = [i \in Instances |-> NoPty]
  /\ ws = [i \in Instances |-> "NONE"]
  /\ term = [i \in Instances |-> NoTerm]
  /\ store = [s \in Sessions |-> NewPty(s)]
  /\ wire = <<>>
  /\ did = <<>>
  /\ windowListeners = {}
  /\ sdk = [i \in Instances |-> DefaultSdk]
  /\ url = [i \in Instances |-> <<>>]

\* const MAX_HISTORY = 1000, scaled to the model
MAX_HISTORY == 3

\* white space String.prototype.trim removes
IsSpace(c) == c \in {" ", "\n", "\t"}

RECURSIVE TrimStart(_)
TrimStart(s) ==
  IF s # <<>> /\ IsSpace(Head(s)) THEN TrimStart(Tail(s)) ELSE s

RECURSIVE TrimEnd(_)
TrimEnd(s) ==
  IF s # <<>> /\ IsSpace(s[Len(s)]) THEN TrimEnd(SubSeq(s, 1, Len(s) - 1)) ELSE s

Trim(s) == TrimEnd(TrimStart(s))

\* Array.prototype.join
RECURSIVE Join(_, _)
Join(list, sep) ==
  IF list = <<>> THEN <<>>
  ELSE IF Len(list) = 1 THEN list[1]
  ELSE list[1] \o <<sep>> \o Join(Tail(list), sep)

\* String.prototype.split with a one-character separator
RECURSIVE Split(_, _)
Split(s, sep) ==
  IF \A k \in 1..Len(s) : s[k] # sep THEN <<s>>
  ELSE LET k == CHOOSE k \in 1..Len(s) : s[k] = sep /\ \A j \in 1..(k - 1) : s[j] # sep
       IN  <<SubSeq(s, 1, k - 1)>> \o Split(SubSeq(s, k + 1, Len(s)), sep)

\* .filter(Boolean) on a list of strings: the empty string is falsy
FilterBoolean(list) == SelectSeq(list, LAMBDA x : x # <<>>)

\* Array.prototype.indexOf, counted from 1; 0 stands for -1
IndexOf(list, x) ==
  IF \A k \in 1..Len(list) : list[k] # x THEN 0
  ELSE CHOOSE k \in 1..Len(list) : list[k] = x /\ \A j \in 1..(k - 1) : list[j] # x

\* list.splice(k, 1), k counted from 1
Splice(list, k) == SubSeq(list, 1, k - 1) \o SubSeq(list, k + 1, Len(list))

ToLowerChar(c) ==
  CASE c = "A" -> "a"
    [] c = "B" -> "b"
    [] c = "W" -> "w"
    [] OTHER   -> c

ToLowerCase(s) == [k \in 1..Len(s) |-> ToLowerChar(s[k])]

StartsWith(s, p) == Len(p) <= Len(s) /\ SubSeq(s, 1, Len(p)) = p

EndsWith(s, p) == Len(p) <= Len(s) /\ SubSeq(s, Len(s) - Len(p) + 1, Len(s)) = p

\* s.slice(n), n >= 0
Slice(s, n) == SubSeq(s, n + 1, Len(s))

\* the lines of the history file: content.split("\n").filter(Boolean)
ParseHistory(content) == FilterBoolean(Split(content, "\n"))

FileContent_SpaceSeparated(history) == Join(history, " ")

\* history.join("\n")
FileContent(history) == Join(history, "\n")

\* loadHistory: the cache when there is one, else the lines of the file when it
\* exists and can be read, else the empty list; the result becomes the cache
LoadHistory(cache, file, readOk) ==
  IF cache.set THEN cache
  ELSE IF file.exists /\ readOk
       THEN [set |-> TRUE, list |-> ParseHistory(file.content)]
       ELSE [set |-> TRUE, list |-> <<>>]

\* lines 31-40 of addToHistory: the first occurrence leaves the list, the
\* command goes to the front, the list is cut to MAX_HISTORY
Updated(history, trimmed) ==
  LET k  == IndexOf(history, trimmed)
      h1 == IF k # 0 THEN Splice(history, k) ELSE history
      h2 == <<trimmed>> \o h1
  IN  IF Len(h2) > MAX_HISTORY THEN SubSeq(h2, 1, MAX_HISTORY) ELSE h2

\* what the user submits in shell mode
RawCommands ==
  { <<>>, <<" ">>, <<"a">>, <<" ", "a", "b", " ">>, <<"A", "b">>, <<"a", "\n", "b">> }

\* what the user has typed when a suggestion is asked for
TypedInputs == { <<" ">>, <<"a">>, <<"A">>, <<"a", "b">> }

\* addToHistory(command); the write of the file may fail, and so may the read
\* when the history is loaded first
AddToHistory(command, readOk, writeOk) ==
  LET trimmed == Trim(command)
      loaded  == LoadHistory(historyCache, historyFile, readOk)
      history == Updated(loaded.list, trimmed)
  IN  /\ last' = Event("addToHistory", 0, command)
      /\ ret' = [kind |-> "void", val |-> <<>>]
      /\ IF trimmed = <<>>
         THEN UNCHANGED <<historyCache, historyFile>>
         ELSE /\ historyCache' = [set |-> TRUE, list |-> history]
              /\ historyFile' = IF writeOk
                                THEN [exists |-> TRUE, content |-> FileContent(history)]
                                ELSE historyFile
      /\ UNCHANGED <<terminalVars, ed>>

\* lines 50-61 of getSuggestion: the rest of the first command that starts
\* with the input, compared in lower case, and is not the input itself
Suggestion(history, input) ==
  IF Trim(input) = <<>> THEN [kind |-> "null", val |-> <<>>]
  ELSE LET lowerInput == ToLowerCase(input)
           hits == SelectSeq(history,
                     LAMBDA cmd : StartsWith(ToLowerCase(cmd), lowerInput) /\ cmd # input)
       IN  IF hits = <<>> THEN [kind |-> "null", val |-> <<>>]
           ELSE [kind |-> "string", val |-> Slice(hits[1], Len(input))]

\* getSuggestion(input); with blank input the history is not loaded
GetSuggestion(input, readOk) ==
  LET loaded == LoadHistory(historyCache, historyFile, readOk)
  IN  /\ last' = Event("getSuggestion", 0, input)
      /\ historyCache' = IF Trim(input) = <<>> THEN historyCache ELSE loaded
      /\ ret' = Suggestion(loaded.list, input)
      /\ UNCHANGED <<terminalVars, historyFile, ed>>

\* the process ends and a new one starts: the module is loaded afresh, the
\* history file stays
Restart ==
  /\ historyCache.set
  /\ historyCache' = NullCache
  /\ last' = Event("restart", 0, <<>>)
  /\ ret' = NoRet
  /\ UNCHANGED <<terminalVars, historyFile, ed>>

InitShell ==
  /\ TerminalIdle
  /\ last = NoEvent
  /\ CliIdle

\* a read can fail only where the file is read
ReadOutcomes == IF ~historyCache.set /\ historyFile.exists THEN BOOLEAN ELSE {TRUE}

NextShell ==
  \/ \E c \in RawCommands, r \in ReadOutcomes, w \in BOOLEAN : AddToHistory(c, r, w)
  \/ \E t \in TypedInputs, r \in ReadOutcomes : GetSuggestion(t, r)
  \/ Restart

SpecShell == InitShell /\ [][NextShell]_vars

(* ======================================================== path completion *)
(* getPathCompletion of shell-history.ts.  The file system is the working   *)
(* directory and what readdirSync lists in it, in the order it lists it;    *)
(* no other directory exists.                                               *)

\* entries a listing holds
MaxEntries == 2

\* os.homedir()
HomeDir == <<"/", "h">>

\* Dirent: name and isDirectory()
Entry(name, isDir) == [name |-> name, isDir |-> isDir]

DirEntries ==
  { Entry(<<"W", "a">>, TRUE), Entry(<<"w", "a", "b">>, FALSE), Entry(<<"w", "b">>, FALSE),
    Entry(<<".", "w">>, FALSE), Entry(<<"b">>, TRUE) }

\* what readdirSync can return: no entry twice
Listings ==
  { l \in UNION { [1..n -> DirEntries] : n \in 0..MaxEntries } :
      \A j, k \in 1..Len(l) : l[j] = l[k] => j = k }

\* what the user has typed when Tab is pressed
TypedLines ==
  { <<>>, <<"w">>, <<"W">>, <<"l", " ", "w", "a">>, <<"w", " ">>, <<"b", "/">>, <<".">>,
    <<"x", "/", "w">>, <<".", "/", "w">>, <<"~", "/", "w">>, <<"l", " ">> }

\* parts[parts.length - 1] of trimmed.split(/\s+/): what follows the last
\* white space of the trimmed input
LastPart(trimmed) ==
  IF \A k \in 1..Len(trimmed) : ~IsSpace(trimmed[k]) THEN trimmed
  ELSE LET k == CHOOSE k \in 1..Len(trimmed) :
                  IsSpace(trimmed[k]) /\ \A j \in (k + 1)..Len(trimmed) : ~IsSpace(trimmed[j])
       IN  Slice(trimmed, k)

ExpandTilde(filepath) ==
  IF StartsWith(filepath, <<"~", "/">>) THEN HomeDir \o <<"/">> \o Slice(filepath, 2)
  ELSE IF filepath = <<"~">> THEN HomeDir
  ELSE filepath

\* index of the last "/" of a path, 0 when it has none
LastSlash(p) ==
  IF \A k \in 1..Len(p) : p[k] # "/" THEN 0
  ELSE CHOOSE k \in 1..Len(p) : p[k] = "/" /\ \A j \in (k + 1)..Len(p) : p[j] # "/"

\* path.dirname and path.basename of a path that does not end with "/"
DirName(p) ==
  IF LastSlash(p) = 0 THEN <<".">>
  ELSE IF LastSlash(p) = 1 THEN <<"/">>
  ELSE SubSeq(p, 1, LastSlash(p) - 1)

BaseName(p) == Slice(p, LastSlash(p))

\* fs.existsSync(path.resolve(dirPath)): only the working directory exists
DirExists(dirPath) == dirPath = <<".">>

\* lines 119-126: the entries whose name starts with the prefix, compared in
\* lower case; hidden entries only for a prefix that starts with "."
Matches(entries, prefix) ==
  SelectSeq(entries,
    LAMBDA e : /\ ~(StartsWith(e.name, <<".">>) /\ ~StartsWith(prefix, <<".">>))
               /\ StartsWith(ToLowerCase(e.name), ToLowerCase(prefix)))

\* lines 139-143: the part of common that agrees with name, compared in lower case
CommonWith(common, name) ==
  LET agree == { j \in 0..Min(Len(common), Len(name)) :
                   \A k \in 1..j : ToLowerChar(common[k]) = ToLowerChar(name[k]) }
      j     == CHOOSE j \in agree : \A k \in agree : k <= j
  IN  SubSeq(common, 1, j)

\* lines 136-144: the common prefix of all matches, folded from the first
RECURSIVE CommonPrefix(_, _)
CommonPrefix(common, rest) ==
  IF rest = <<>> THEN common
  ELSE CommonPrefix(CommonWith(common, rest[1].name), Tail(rest))

Null == [kind |-> "null", val |-> <<>>]

Str(s) == [kind |-> "string", val |-> s]

\* getPathCompletion, lines 91-154; readdirSync may throw, which is caught
PathCompletion(input, entries, readOk) ==
  LET lastPart == LastPart(TrimEnd(input))
      expandedPath == ExpandTilde(lastPart)
      prefix  == BaseName(expandedPath)
      matches == Matches(entries, prefix)
      common  == CommonPrefix(matches[1].name, Tail(matches))
  IN  IF lastPart = <<>> THEN Null
      ELSE IF EndsWith(lastPart, <<"/">>) THEN Null
      ELSE IF prefix = <<>> THEN Null
      ELSE IF ~DirExists(DirName(expandedPath)) THEN Null
      ELSE IF ~readOk THEN Null
      ELSE IF Len(matches) = 0 THEN Null
      ELSE IF Len(matches) = 1
           THEN Str(Slice(matches[1].name, Len(prefix))
                      \o (IF matches[1].isDir THEN <<"/">> ELSE <<" ">>))
      ELSE IF Len(common) > Len(prefix) THEN Str(Slice(common, Len(prefix)))
      ELSE Null

\* Tab is pressed with input typed, in a working directory that lists entries
GetPathCompletion(input, entries, readOk) ==
  /\ last' = Event("getPathCompletion", 0,
                   [input |-> input, entries |-> entries, readOk |-> readOk])
  /\ ret' = PathCompletion(input, entries, readOk)
  /\ UNCHANGED <<terminalVars, historyCache, historyFile, ed>>

InitPath ==
  /\ TerminalIdle
  /\ last = NoEvent
  /\ CliIdle

NextPath ==
  \E t \in TypedLines, l \in Listings, r \in BOOLEAN : GetPathCompletion(t, l, r)

SpecPath == InitPath /\ [][NextPath]_vars

(* ========================================================= file protection *)
(* src/packages/opencode/.opencode/plugin/file-protection.js                *)
(* A file path is a list of components, a component a list of tokens: the   *)
(* pieces of a name that the hook's patterns are made of.  The path string  *)
(* is the tokens of its components with "/" between the components, and a   *)
(* pattern is included in it when it is one of these tokens.                *)

\* directories above the file
MaxDepth == 2

protectedFiles ==
  { ".env", "id_rsa", "id_ed25519", ".pem", ".key", ".npmrc", ".pypirc",
    "credentials.json", ".bash_history", ".zsh_history", "/etc/passwd", "/etc/shadow" }

allowedPatterns ==
  { ".example", ".sample", ".template", "-example", "-sample", "-template",
    "_example", "_sample", "_template" }

DirNames == { <<"proj">>, <<"my", "-example">>, <<"config", "_template", "s">> }

FileNames ==
  { <<".env">>, <<".env", ".example">>, <<".env", ".Sample">>, <<"id_rsa">>,
    <<"server", ".key">>, <<"server", "-template", ".key">>, <<"readme">>,
    <<"/etc/passwd">> }

FilePaths ==
  { dirs \o <<f>> : dirs \in UNION { [1..n -> DirNames] : n \in 0..MaxDepth },
                    f \in FileNames }

Tools == {"read", "write", "bash"}

\* the path string, as its tokens
RECURSIVE PathString(_)
PathString(path) ==
  IF Len(path) = 1 THEN path[1]
  ELSE path[1] \o <<"/">> \o PathString(Tail(path))

ToLowerToken(t) ==
  CASE t = ".Sample" -> ".sample"
    [] OTHER         -> t

\* String.prototype.includes for a pattern, on the tokens of a string
Includes(tokens, pattern) == \E k \in 1..Len(tokens) : tokens[k] = pattern

\* isExampleFile, lines 31-34: some allowed pattern is in the lower-cased path
IsExampleFile(path) ==
  LET lowerPath == [k \in 1..Len(PathString(path)) |-> ToLowerToken(PathString(path)[k])]
  IN  \E pattern \in allowedPatterns : Includes(lowerPath, pattern)

\* lines 46-49; a string that ends with the pattern includes it
IsProtected(path) ==
  \E protectedFile \in protectedFiles :
    \/ Includes(PathString(path), protectedFile)
    \/ PathString(path)[Len(PathString(path))] = protectedFile

\* the hook "tool.execute.before", lines 37-54: what it returns or throws
ToolExecuteBefore(tool, path) ==
  IF tool = "read"
  THEN IF IsExampleFile(path) THEN [kind |-> "void", val |-> <<>>]
       ELSE IF IsProtected(path)
            THEN [kind |-> "throw",
                  val |-> <<"Access denied: Cannot read protected file ">> \o PathString(path)]
            ELSE [kind |-> "void", val |-> <<>>]
  ELSE [kind |-> "void", val |-> <<>>]

\* a tool is about to run with output.args.filePath = path
BeforeTool(tool, path) ==
  /\ last' = Event("tool.execute.before", 0, [tool |-> tool, filePath |-> path])
  /\ ret' = ToolExecuteBefore(tool, path)
  /\ UNCHANGED <<terminalVars, historyCache, historyFile, ed>>

InitProtection ==
  /\ TerminalIdle
  /\ last = NoEvent
  /\ CliIdle

NextProtection ==
  \E tool \in Tools, path \in FilePaths : BeforeTool(tool, path)

SpecProtection == InitProtection /\ [][NextProtection]_vars

(* ================================================================= editor *)
(* Editor.open and Editor.openFile (src/unnamed/part_005).  A call runs in  *)
(* turns: up to its first await, from one await to the next, and it ends by *)
(* returning or by throwing; the disposer registered with "await using"     *)
(* runs however the call ends.                                              *)

\* process.env["VISUAL"] and process.env["EDITOR"]; unset and "" are both falsy
EnvValues == { <<>>, <<"v", "i">>, <<"c", " ", "-", "w">> }

\* opts.value, and what the editor leaves in the file
Contents == { <<>>, <<"x">>, <<"y">> }

\* a || b on strings
OrElse(a, b) == IF a # <<>> THEN a ELSE b

\* the call is over: it returned or threw
Settled == ed.pc \in {"idle", "returned", "threw"}

\* the steps of a turn are appended to what the call did so far
Did(ops) == ed.ops \o ops

\* lines 8-15 of open: with no editor the call returns at once; else the
\* disposer is registered and the call awaits Bun.write
EditorOpen(visual, editorEnv, value) ==
  LET editor == OrElse(visual, editorEnv)
  IN  /\ Settled
      /\ last' = Event("Editor.open", 0, value)
      /\ IF editor = <<>>
         THEN /\ ed' = [ed EXCEPT !.fn = "open", !.pc = "returned", !.editor = editor,
                                  !.cmd = <<>>, !.ops = <<>>]
              /\ ret' = [kind |-> "undefined", val |-> <<>>]
         ELSE /\ ed' = [ed EXCEPT !.fn = "open", !.pc = "writing", !.editor = editor,
                                  !.cmd = <<>>, !.ops = <<>>]
              /\ ret' = NoRet
      /\ UNCHANGED <<terminalVars, historyCache, historyFile>>

\* lines 15-25 of open: Bun.write settles; when it failed the call throws;
\* else the renderer is suspended and the editor is spawned on the file,
\* Bun.spawn throwing when it cannot start it; the call then awaits its exit
EditorWritten(value, writeOk, spawnOk) ==
  /\ ed.fn = "open" /\ ed.pc = "writing"
  /\ value = last.arg
  /\ IF ~writeOk
     THEN /\ ed' = [ed EXCEPT !.pc = "threw", !.tmp = FALSE, !.ops = Did(<<"write", "rm">>)]
          /\ ret' = [kind |-> "throw", val |-> <<>>]
     ELSE IF ~spawnOk
     THEN /\ ed' = [ed EXCEPT !.pc = "threw", !.tmp = FALSE, !.content = value,
                              !.suspended = TRUE,
                              !.ops = Did(<<"write", "suspend", "clear", "spawn", "rm">>)]
          /\ ret' = [kind |-> "throw", val |-> <<>>]
     ELSE /\ ed' = [ed EXCEPT !.pc = "running", !.tmp = TRUE, !.content = value,
                              !.suspended = TRUE,
                              !.cmd = Split(ed.editor, " ") \o <<<<"tmp">>>>,
                              !.ops = Did(<<"write", "suspend", "clear", "spawn">>)]
          /\ UNCHANGED ret
  /\ UNCHANGED <<terminalVars, historyCache, historyFile, last>>

\* lines 25-30 of open: the editor has exited, leaving content in the file;
\* the file is read back, which may fail; then the renderer is resumed and
\* the content, or undefined for "", is returned; the disposer removes the file
EditorExited(content, readOk) ==
  /\ ed.fn = "open" /\ ed.pc = "running"
  /\ IF ~readOk
     THEN /\ ed' = [ed EXCEPT !.pc = "threw", !.tmp = FALSE, !.content = content,
                              !.ops = Did(<<"read", "rm">>)]
          /\ ret' = [kind |-> "throw", val |-> <<>>]
     ELSE /\ ed' = [ed EXCEPT !.pc = "returned", !.tmp = FALSE, !.content = content,
                              !.suspended = FALSE,
                              !.ops = Did(<<"read", "clear", "resume", "requestRender", "rm">>)]
          /\ ret' = IF content = <<>> THEN [kind |-> "undefined", val |-> <<>>]
                    ELSE [kind |-> "string", val |-> content]
  /\ UNCHANGED <<terminalVars, historyCache, historyFile, last>>

\* lines 33-46 of openFile: with no editor the call returns at once; else the
\* renderer is suspended and the editor spawned on opts.filePath in the same turn
EditorOpenFile(visual, editorEnv, spawnOk) ==
  LET editor == OrElse(visual, editorEnv)
  IN  /\ Settled
      /\ last' = Event("Editor.openFile", 0, <<>>)
      /\ IF editor = <<>>
         THEN /\ ed' = [ed EXCEPT !.fn = "openFile", !.pc = "returned", !.editor = editor,
                                  !.cmd = <<>>, !.ops = <<>>]
              /\ ret' = [kind |-> "void", val |-> <<>>]
         ELSE IF ~spawnOk
         THEN /\ ed' = [ed EXCEPT !.fn = "openFile", !.pc = "threw", !.editor = editor,
                                  !.cmd = <<>>, !.suspended = TRUE,
                                  !.ops = <<"suspend", "clear", "spawn">>]
              /\ ret' = [kind |-> "throw", val |-> <<>>]
         ELSE /\ ed' = [ed EXCEPT !.fn = "openFile", !.pc = "running", !.editor = editor,
                                  !.cmd = Split(editor, " ") \o <<<<"filePath">>>>,
                                  !.suspended = TRUE,
                                  !.ops = <<"suspend", "clear", "spawn">>]
              /\ ret' = NoRet
      /\ UNCHANGED <<terminalVars, historyCache, historyFile>>

\* lines 46-49 of openFile: the editor has exited; the renderer is resumed
EditorFileExited ==
  /\ ed.fn = "openFile" /\ ed.pc = "running"
  /\ ed' = [ed EXCEPT !.pc = "returned", !.suspended = FALSE,
                      !.ops = Did(<<"clear", "resume", "requestRender">>)]
  /\ ret' = [kind |-> "void", val |-> <<>>]
  /\ UNCHANGED <<terminalVars, historyCache, historyFile, last>>

InitEditor ==
  /\ TerminalIdle
  /\ last = NoEvent
  /\ CliIdle

NextEditor ==
  \/ \E v, e \in EnvValues, value \in Contents : EditorOpen(v, e, value)
  \/ \E value \in Contents, w, s \in BOOLEAN : EditorWritten(value, w, s)
  \/ \E c \in Contents, r \in BOOLEAN : EditorExited(c, r)
  \/ \E v, e \in EnvValues, s \in BOOLEAN : EditorOpenFile(v, e, s)
  \/ EditorFileExited

SpecEditor == InitEditor /\ [][NextEditor]_vars

(* ================================================================ claims *)
OpNames(ops) == [k \in 1..Len(ops) |-> ops[k].op]

\* the operations of a step whose name is in the set, in order
RECURSIVE OpsIn(_, _)
OpsIn(ops, names) ==
  IF ops = <<>> THEN <<>>
  ELSE (IF Head(ops).op \in names THEN <<Head(ops)>> ELSE <<>>) \o OpsIn(Tail(ops), names)

\* C1: an onData event is sent on the connection, unchanged, exactly when the
\* connection is OPEN at that moment; otherwise nothing is sent, and no other
\* step (a later open, a later mount of the same session) sends input.
C1_InputForwardedIffOpen ==
  [][ /\ last'.ev = "onData" =>
           did' = IF ws[last'.inst] = "OPEN"
                  THEN <<Op("send", 0, 0, last'.arg)>> ELSE <<>>
      /\ last'.ev = "onData" =>
           wire' = IF ws[last'.inst] = "OPEN"
                   THEN Append(wire, <<last'.inst, "send">>) ELSE wire
      /\ last'.ev # "onData" => OpsIn(did', {"send"}) = <<>> ]_vars

\* input typed on the reattached view while it is still connecting is dropped
C1_Witness ==
  /\ last.ev = "onData" /\ last.inst = 2
  /\ ws[2] = "CONNECTING" /\ pc[1] = "cleaned" /\ pty[2].id = pty[1].id
  /\ did = <<>>

\* what the wire holds per connection: at most one report made on open, one
\* for an OPEN connection, none before it opened, and no input before it
OpenReportOnWire ==
  \A i \in Instances :
    LET reports == {k \in 1..Len(wire) : wire[k] = <<i, "update.open">>}
        sends   == {k \in 1..Len(wire) : wire[k] = <<i, "send">>}
    IN /\ Cardinality(reports) <= 1
       /\ ws[i] = "OPEN" => Cardinality(reports) = 1
       /\ ws[i] \in {"NONE", "CONNECTING"} => reports = {}
       /\ \A k \in sends : \E j \in reports : j < k

\* C2: the step that opens a connection reports the surface's current grid
\* once on the resize channel and no other step makes that report; on the
\* wire every connection has at most one such report, an OPEN connection has
\* exactly one, and it comes before every input sent on that connection.
C2_OpenReportsOnce ==
  /\ []OpenReportOnWire
  /\ [][ /\ last'.ev = "wsOpen" =>
              /\ did' = <<Op("update.open", term[last'.inst].cols,
                                            term[last'.inst].rows, <<>>)>>
              /\ wire' = Append(wire, <<last'.inst, "update.open">>)
         /\ last'.ev # "wsOpen" => OpsIn(did', {"update.open"}) = <<>> ]_vars

\* a connection opened, reported the fitted grid, then carried input
C2_Witness ==
  \E i \in Instances :
    /\ wire = <<(<<i, "update.open">>), (<<i, "send">>)>>
    /\ last.ev = "onData" /\ ws[i] = "OPEN"

\* C3: every message delivered on an attached view's connection is written to
\* that view's surface as it is, at the end of what the surface holds, in the
\* step that receives it; nothing else changes the buffer of a live surface.
C3_MessagesWrittenInOrder ==
  [][ /\ last'.ev = "wsMessage" =>
           /\ did' = <<Op("write", 0, 0, last'.arg)>>
           /\ term'[last'.inst].lines = term[last'.inst].lines \o last'.arg
           /\ \A j \in Instances \ {last'.inst} : term'[j] = term[j]
      /\ last'.ev \notin {"wsMessage", "mount", "cleanup"} =>
           \A j \in Instances : term'[j].lines = term[j].lines ]_vars

\* two different messages arrived one after the other
C3_Witness ==
  /\ last.ev = "wsMessage" /\ last.arg = <<"b">>
  /\ pc[last.inst] = "mounted"
  /\ term[last.inst].lines = <<"a", "b">>

\* C4: onCleanup of a mounted view runs in one step: it serializes the live
\* surface, hands the host the session with that snapshot, the grid and the
\* top line, then closes the connection, then disposes the surface.
C4_CaptureBeforeTeardown ==
  [][ (last'.ev = "cleanup" /\ pc[last'.inst] = "mounted") =>
        LET i == last'.inst IN
        /\ term[i].state = "live"
        /\ host.onCleanup =>
             /\ OpNames(did') = <<"serialize", "onCleanup", "ws.close", "dispose">>
             /\ store'[pty[i].id] =
                  [pty[i] EXCEPT !.buffer = term[i].lines, !.rows = term[i].rows,
                                 !.cols = term[i].cols, !.scrollY = term[i].viewportY]
        /\ ~host.onCleanup => OpNames(did') = <<"ws.close", "dispose">> /\ store' = store
        /\ ws'[i] \in {"CLOSING", "CLOSED"}
        /\ term'[i].state = "disposed"
        /\ pc'[i] = "cleaned" ]_vars

\* a view with output on its surface and an open connection was unmounted
C4_Witness ==
  /\ last.ev = "cleanup" /\ last.inst = 1
  /\ OpNames(did) = <<"serialize", "onCleanup", "ws.close", "dispose">>
  /\ store["s1"].buffer # <<>> /\ store["s1"].scrollY # 0
  /\ ws[1] = "CLOSING" /\ term[1].state = "disposed"

\* C5 as claimed: once a view is cleaned up its connection is not open, and an
\* open, message, error or close event of that connection performs no
\* operation at all.  The handlers carry no such guard: the error event that
\* follows ws.close() still calls props.onConnectError.
C5_NoActionAfterTeardown ==
  [][ \A i \in Instances :
        pc[i] = "cleaned" =>
          /\ ws[i] \notin {"CONNECTING", "OPEN"}
          /\ (last'.inst = i /\ last'.ev \in {"wsOpen", "wsMessage", "wsError", "wsClose"})
               => did' = <<>> ]_vars

FirstIndex(ops, name) ==
  IF \E k \in 1..Len(ops) : ops[k].op = name
  THEN CHOOSE k \in 1..Len(ops) : ops[k].op = name /\ \A j \in 1..(k - 1) : ops[j].op # name
  ELSE 0

\* C6 as claimed: in a mount that restores a buffer no resize of the surface
\* comes after the write of the snapshot.
C6_NoResizeAfterWrite ==
  [][ (last'.ev = "mount" /\ pty'[last'.inst].buffer # <<>>) =>
        LET w == FirstIndex(did', "write") IN
        \A k \in 1..Len(did') : did'[k].op \in {"resize", "fit.resize"} => k < w ]_vars

\* C6 amended: the restore block issues resize to the saved grid, reset,
\* write(snapshot), scrollToLine(saved offset) in that order; the one resize
\* that can follow the write is the last operation of the mount, made by
\* fitAddon.fit() when the container fits another grid than the surface has.
C6_RestoreOrder ==
  [][ (last'.ev = "mount" /\ pty'[last'.inst].buffer # <<>>) =>
        LET p   == pty'[last'.inst]
            ops == OpsIn(did', SurfaceOps)
            w   == FirstIndex(ops, "write")
            f   == [cols |-> last'.arg[1], rows |-> last'.arg[2]]
        IN /\ w > 1 /\ ops[w].data = p.buffer /\ ops[w - 1].op = "reset"
           /\ \A k \in 1..Len(ops) :
                /\ k < w - 1 => ops[k].op = "resize" /\ ops[k].a = p.cols /\ ops[k].b = p.rows
                /\ ops[k].op = "resize" => k = 1 /\ w = 3
                /\ ops[k].op = "scrollToLine" => k = w + 1 /\ ops[k].a = p.scrollY
                /\ ops[k].op = "fit.resize" =>
                     /\ k = Len(ops) /\ ops[k].a = f.cols /\ ops[k].b = f.rows
                     /\ (f.cols # p.cols \/ f.rows # p.rows)
                /\ k > w => ops[k].op \in {"scrollToLine", "fit.resize"}
           /\ (p.cols # 0 /\ p.rows # 0) => ops[1].op = "resize"
           /\ p.scrollY # 0 => w < Len(ops) /\ ops[w + 1].op = "scrollToLine" ]_vars

\* a restore with all four operations, in a container that fits the saved grid
C6_Witness ==
  /\ last.ev = "mount" /\ last.inst = 2
  /\ OpNames(OpsIn(did, SurfaceOps)) = <<"resize", "reset", "write", "scrollToLine">>

C9_ResizeReportedIffOpen ==
  [][ /\ last'.ev = "onResize" =>
           /\ OpsIn(did', {"update.resize", "update.open", "send"}) =
                IF ws[last'.inst] = "OPEN"
                THEN <<Op("update.resize", last'.arg[1], last'.arg[2], <<>>)>> ELSE <<>>
           /\ term'[last'.inst].cols = last'.arg[1]
           /\ term'[last'.inst].rows = last'.arg[2]
           /\ wire' = IF ws[last'.inst] = "OPEN"
                      THEN Append(wire, <<last'.inst, "update.resize">>) ELSE wire
      /\ last'.ev # "onResize" => OpsIn(did', {"update.resize"}) = <<>> ]_vars

\* the container of a view with an open connection changed its grid
C9_Witness ==
  /\ last.ev = "onResize" /\ ws[last.inst] = "OPEN"
  /\ OpNames(did) = <<"fit.resize", "update.resize">>

\* C10: a connection error calls the host's onConnectError, a clean close
\* calls nothing, and a connection is created only by a mount: no handler
\* makes one and a WebSocket never returns to CONNECTING.
C10_ErrorSurfacedNoRetry ==
  [][ /\ last'.ev = "wsError" =>
           did' = IF host.onConnectError THEN <<Op("onConnectError", 0, 0, <<>>)>> ELSE <<>>
      /\ last'.ev = "wsClose" => did' = <<>>
      /\ last'.ev # "wsError" => OpsIn(did', {"onConnectError"}) = <<>>
      /\ last'.ev # "mount" => OpsIn(did', {"ws.new"}) = <<>>
      /\ \A i \in Instances :
           (ws'[i] = "CONNECTING" /\ ws[i] # "CONNECTING") =>
              (last'.ev = "mount" /\ last'.inst = i /\ ws[i] = "NONE") ]_vars

\* the connection of a mounted view failed and the host was told
C10_Witness ==
  /\ last.ev = "wsError" /\ pc[last.inst] = "mounted"
  /\ OpNames(did) = <<"onConnectError">>
  /\ ws[last.inst] = "CLOSED"

TrafficOps == {"send", "write", "update.open", "update.resize"}

\* C11: the step that handles a connection error leaves the connection CLOSED
\* and every surface, the wire and the store as they are; a CLOSED connection
\* stays CLOSED, dispatches no further event, and no step of its view sends,
\* reports or writes anything; the view's content stays until its cleanup,
\* which completes and hands the host that content.  A later mount works on a
\* connection of its own.
C11_ErrorEndsTraffic ==
  [][ /\ last'.ev = "wsError" =>
           /\ ws'[last'.inst] = "CLOSED"
           /\ term' = term /\ wire' = wire /\ pc' = pc /\ store' = store
           /\ OpsIn(did', TrafficOps \cup {"ws.new"}) = <<>>
      /\ \A i \in Instances :
           ws[i] = "CLOSED" =>
             /\ ws'[i] = "CLOSED"
             /\ last'.inst = i =>
                  /\ last'.ev \notin {"mount", "wsOpen", "wsMessage", "wsError", "wsClose"}
                  /\ OpsIn(did', TrafficOps) = <<>>
                  /\ wire' = wire
                  /\ last'.ev # "cleanup" => term'[i].lines = term[i].lines
                  /\ (last'.ev = "cleanup" /\ pc[i] = "mounted") =>
                       /\ pc'[i] = "cleaned"
                       /\ host.onCleanup => store'[pty[i].id].buffer = term[i].lines ]_vars

\* a connection that had carried input and output failed; the output is still shown
C11_Witness ==
  /\ last.ev = "wsError" /\ pc[last.inst] = "mounted"
  /\ ws[last.inst] = "CLOSED"
  /\ term[last.inst].lines # <<>>
  /\ \E k \in 1..Len(wire) : wire[k] = <<last.inst, "send">>

\* C12: onCleanup calls close() on the WebSocket exactly when one was created;
\* the call moves a connecting or open socket to CLOSING and leaves a closing
\* or closed socket, and every other view's socket, as it is; it reports no
\* error, and the cleanup completes whatever state the socket was in.  Closing
\* twice is closing once.
C12_DisconnectIdempotent ==
  /\ [](\A s \in {"NONE", "CONNECTING", "OPEN", "CLOSING", "CLOSED"} :
          WsCloseCall(WsCloseCall(s)) = WsCloseCall(s))
  /\ [][ last'.ev = "cleanup" =>
           LET i == last'.inst IN
           /\ ws'[i] = IF ws[i] \in {"CONNECTING", "OPEN"} THEN "CLOSING" ELSE ws[i]
           /\ (OpsIn(did', {"ws.close"}) # <<>>) <=> (ws[i] # "NONE")
           /\ \A j \in Instances \ {i} : ws'[j] = ws[j]
           /\ wire' = wire
           /\ OpsIn(did', {"onConnectError"}) = <<>>
           /\ pc'[i] = "cleaned" ]_vars

\* a view whose connection had already closed was unmounted
C12_Witness ==
  /\ last.ev = "cleanup" /\ ws[last.inst] = "CLOSED"
  /\ OpsIn(did, {"ws.close"}) # <<>>
  /\ pc[last.inst] = "cleaned"

LiveConnections(sid) ==
  {i \in Instances : pty[i].id = sid /\ ws[i] \in {"CONNECTING", "OPEN"}}

C15_ConnectAfterSurfaceReady ==
  [][ last'.ev = "mount" =>
        LET c == FirstIndex(did', "ws.new") IN
        /\ c > FirstIndex(did', "term.new")
        /\ c > FirstIndex(did', "focus")
        /\ \A k \in 1..Len(did') :
             did'[k].op \in {"resize", "reset", "write", "scrollToLine"} => k < c ]_vars

\* C15 amended: a mount creates the WebSocket first and then, in the same
\* step, creates the surface, restores it, focuses the container, fits, and
\* registers the window listener, the surface's onResize, onData and onKey
\* handlers and the socket's four listeners, in that order; the socket stays
\* CONNECTING through the step, and its open event is handled only in a later
\* step, by a mounted view with a live surface.
C15_MountOrder ==
  [][ /\ last'.ev = "mount" =>
           LET n  == Len(did')
               fc == FirstIndex(did', "focus")
           IN /\ did'[1].op = "ws.new" /\ did'[2].op = "term.new"
              /\ fc > 2
              /\ \A k \in 1..n :
                   /\ did'[k].op \in {"resize", "reset", "write", "scrollToLine"}
                        => (2 < k /\ k < fc)
                   /\ did'[k].op = "fit.resize" => (k = fc + 1 /\ n = fc + 9)
                   /\ did'[k].op \in {"ws.new", "term.new", "focus"} => k \in {1, 2, fc}
              /\ n >= fc + 8
              /\ OpNames(SubSeq(did', n - 7, n)) =
                   <<"window.onresize", "term.onResize", "term.onData", "term.onKey",
                     "ws.onopen", "ws.onmessage", "ws.onerror", "ws.onclose">>
              /\ ws'[last'.inst] = "CONNECTING"
              /\ pc'[last'.inst] = "mounted"
      /\ last'.ev = "wsOpen" =>
           /\ pc[last'.inst] = "mounted"
           /\ term[last'.inst].state = "live"
           /\ ws[last'.inst] = "CONNECTING" ]_vars

\* a mount that restored a snapshot, with the WebSocket created before it
C15_Witness ==
  /\ last.ev = "mount" /\ did[1].op = "ws.new"
  /\ FirstIndex(did, "write") > 2
  /\ FirstIndex(did, "focus") > FirstIndex(did, "write")
  /\ ws[last.inst] = "CONNECTING"

\* C16 as claimed: a mount with a session that has remembered dimensions
\* resizes the surface to them, before it creates the WebSocket.
C16_ResizeWheneverRemembered ==
  [][ (/\ last'.ev = "mount"
       /\ pty'[last'.inst].cols # 0 /\ pty'[last'.inst].rows # 0) =>
        \E k \in 1..Len(did') :
          /\ did'[k].op = "resize"
          /\ did'[k].a = pty'[last'.inst].cols /\ did'[k].b = pty'[last'.inst].rows
          /\ k < FirstIndex(did', "ws.new") ]_vars

\* C16 amended: a mount resizes the surface to the remembered dimensions
\* exactly when the session has them and also has a non-empty snapshot, once,
\* after the WebSocket was created; a session with dimensions but no snapshot
\* gets no such resize.  Either way the mount ends with the grid the
\* container fits.
C16_ResizeOnlyWithSnapshot ==
  [][ last'.ev = "mount" =>
        LET p  == pty'[last'.inst]
            rs == OpsIn(did', {"resize"})
        IN /\ (rs # <<>>) <=> (p.buffer # <<>> /\ p.cols # 0 /\ p.rows # 0)
           /\ rs # <<>> =>
                /\ rs = <<Op("resize", p.cols, p.rows, <<>>)>>
                /\ FirstIndex(did', "resize") > FirstIndex(did', "ws.new")
           /\ term'[last'.inst].cols = last'.arg[1]
           /\ term'[last'.inst].rows = last'.arg[2] ]_vars

\* a session saved with its dimensions and an empty buffer was mounted again
C16_Witness ==
  /\ last.ev = "mount" /\ last.inst = 2
  /\ pty[2].cols # 0 /\ pty[2].rows # 0 /\ pty[2].buffer = <<>>
  /\ OpsIn(did, {"resize"}) = <<>>

\* C17 as claimed: a mount whose restore fails still ends mounted, with an
\* empty live surface, nothing thrown, and the window listener, the surface's
\* handlers and the socket's listeners registered as in any other mount.
C17_RestoreFailureIsSafe ==
  [][ last'.ev = "mountThrows" =>
        LET i == last'.inst
            n == Len(did')
        IN /\ OpsIn(did', {"throw"}) = <<>>
           /\ pc'[i] = "mounted"
           /\ term'[i].state = "live" /\ term'[i].lines = <<>>
           /\ i \in windowListeners'
           /\ n >= 8
           /\ OpNames(SubSeq(did', n - 7, n)) =
                <<"window.onresize", "term.onResize", "term.onData", "term.onKey",
                  "ws.onopen", "ws.onmessage", "ws.onerror", "ws.onclose">> ]_vars

\* what a view does to its surface or its connection
LifecycleOps ==
  SurfaceOps \cup TrafficOps \cup {"ws.new", "term.new", "focus", "fit", "ws.close", "dispose",
                                   "serialize"}

\* C18 as claimed: a view goes from unmounted to mounted to cleaned and never
\* back; a cleanup before any mount does nothing; and a step of a view that is
\* cleaned performs no operation on its surface or its connection.  The
\* window listener of line 69 outlives the cleanup and calls fitAddon.fit()
\* of the disposed surface.
C18_LifecycleOrder ==
  [][ \A i \in Instances :
        /\ pc'[i] # pc[i] =>
             /\ <<pc[i], pc'[i]>> \in {<<"unmounted", "mounted">>, <<"mounted", "cleaned">>,
                                      <<"unmounted", "cleaned">>}
             /\ last'.inst = i /\ last'.ev \in {"mount", "cleanup"}
        /\ (last'.inst = i /\ pc[i] = "unmounted") =>
             /\ last'.ev \in {"mount", "cleanup"}
             /\ last'.ev = "cleanup" =>
                  (did' = <<>> /\ term' = term /\ ws' = ws /\ store' = store)
        /\ (last'.inst = i /\ pc[i] = "cleaned") =>
             /\ OpsIn(did', LifecycleOps) = <<>>
             /\ term'[i] = term[i] ]_vars

\* C19 as claimed: only mounted views have a resize listener on window, so the
\* listeners do not outnumber the mounted views, and a window resize after a
\* view's cleanup calls nothing of that view.  onCleanup does not remove the
\* listener of line 69.
C19_WindowListenersReleased ==
  /\ [](\A i \in windowListeners : pc[i] = "mounted")
  /\ [][ last'.ev = "windowResize" => pc[last'.inst] = "mounted" ]_vars

\* the views that have created a WebSocket
Connected == {i \in Instances : url[i] # <<>>}

\* C20 as claimed: two connects with the same session id have the same
\* address, whatever context they are made in, and connects with different
\* session ids have different addresses.
C20_AddressFromSessionIdAlone ==
  \A i, j \in Connected :
    /\ pty[i].id = pty[j].id => url[i] = url[j]
    /\ pty[i].id # pty[j].id => url[i] # url[j]

\* C20 amended: the address is the server url, the path /pty/<session id>/connect
\* and the working directory, percent-encoded, as the query: connects with the
\* same session id, server and directory have the same address, connects that
\* differ in one of the three have different addresses, and the path is a
\* function of the session id alone.
C20_AddressFromIdServerDirectory ==
  \A i, j \in Connected :
    /\ (pty[i].id = pty[j].id /\ sdk[i] = sdk[j]) => url[i] = url[j]
    /\ pty[i].id # pty[j].id => url[i] # url[j]
    /\ sdk[i].directory # sdk[j].directory => url[i] # url[j]
    /\ sdk[i].url # sdk[j].url => url[i] # url[j]
    /\ SubSeq(url[i], 1, 4) = <<sdk[i].url, "/pty/", pty[i].id, "/connect?directory=">>
    /\ pty[i].id = pty[j].id => SubSeq(url[i], 2, 4) = SubSeq(url[j], 2, 4)
    /\ \A k \in 5..Len(url[i]) : url[i][k] \notin {"/", " "}

\* one session was connected to from two directories of one server
C20_Witness ==
  /\ Connected = {1, 2} /\ pty[1].id = pty[2].id
  /\ sdk[1].url = sdk[2].url /\ sdk[1].directory # sdk[2].directory
  /\ url[1] # url[2]
  /\ last.ev = "mount" /\ last.inst = 2

\* C21: an onKey event with key Enter calls the host's onSubmit once when the
\* host passed one, whatever the readyState of the socket, and an onKey event
\* with another key calls nothing; the key handler sends nothing and changes
\* neither socket nor surface, and no other event, onData included, calls
\* onSubmit.
C21_SubmitOnEnterOnly ==
  [][ /\ last'.ev = "onKey" =>
           /\ did' = IF last'.arg = <<"Enter">> /\ host.onSubmit
                     THEN <<Op("onSubmit", 0, 0, <<>>)>> ELSE <<>>
           /\ wire' = wire /\ ws' = ws /\ term' = term /\ store' = store
      /\ last'.ev # "onKey" => OpsIn(did', {"onSubmit"}) = <<>> ]_vars

\* Enter was pressed in a view whose connection had failed
C21_Witness ==
  /\ last.ev = "onKey" /\ last.arg = <<"Enter">>
  /\ ws[last.inst] = "CLOSED" /\ pc[last.inst] = "mounted"
  /\ OpNames(did) = <<"onSubmit">>

\* C22: the record onCleanup hands the host has the fields of the session the
\* view was mounted with, with the same id and title, and buffer, rows, cols
\* and scrollY taken from the surface as it is at the cleanup; the host files
\* it under that id, and neither the mounted session nor any other stored
\* session changes.
C22_CaptureFrame ==
  [][ (last'.ev = "cleanup" /\ pc[last'.inst] = "mounted" /\ host.onCleanup) =>
        LET old == pty[last'.inst]
            new == store'[old.id]
            t   == term[last'.inst]
        IN /\ DOMAIN new = DOMAIN old
           /\ \A f \in DOMAIN old \ {"buffer", "rows", "cols", "scrollY"} : new[f] = old[f]
           /\ new.id = old.id /\ new.title = old.title
           /\ new.buffer = t.lines /\ new.rows = t.rows /\ new.cols = t.cols
           /\ new.scrollY = t.viewportY
           /\ \A sid \in DOMAIN store \ {old.id} : store'[sid] = store[sid]
           /\ pty' = pty ]_vars

\* a view that showed output was unmounted and its session came back changed
\* in buffer, grid and offset only
C22_Witness ==
  /\ last.ev = "cleanup" /\ host.onCleanup
  /\ pty[last.inst].id \in DOMAIN store
  /\ store[pty[last.inst].id].buffer # pty[last.inst].buffer
  /\ store[pty[last.inst].id].rows # pty[last.inst].rows
  /\ store[pty[last.inst].id].scrollY # pty[last.inst].scrollY
  /\ store[pty[last.inst].id].title = pty[last.inst].title

NoDuplicates(list) ==
  \A j, k \in 1..Len(list) : list[j] = list[k] => j = k

\* C23: after an addToHistory call that adds a command, the history holds at
\* most MAX_HISTORY commands, the added command first, and no command twice
\* (they are the most recently added distinct commands).
C23_BoundedRecentDistinct ==
  [](last.ev = "addToHistory" /\ Trim(last.arg) # <<>>
       => /\ historyCache.set
          /\ Len(historyCache.list) <= MAX_HISTORY
          /\ historyCache.list[1] = Trim(last.arg)
          /\ NoDuplicates(historyCache.list))

\* C24: adding a command that is already in the history moves it
\* to the front; the length of the history is unchanged and the other
\* commands keep their relative order.
C24_MoveToFrontSameLength ==
  [][(/\ last'.ev = "addToHistory"
      /\ historyCache.set
      /\ IndexOf(historyCache.list, Trim(last'.arg)) # 0)
       => /\ Len(historyCache'.list) = Len(historyCache.list)
          /\ historyCache'.list[1] = Trim(last'.arg)
          /\ Tail(historyCache'.list)
               = Splice(historyCache.list, IndexOf(historyCache.list, Trim(last'.arg)))]_vars

HasNewline(cmd) == \E k \in 1..Len(cmd) : cmd[k] = "\n"

\* C28: after an addToHistory call whose write succeeds, a fresh process that
\* can read the file loads exactly the in-memory history, provided no command
\* of the history contains a newline; when the write fails the call returns
\* normally, the file is as it was and the in-memory history has the command
\* at its front.
C28_FileRoundTrip ==
  [][(last'.ev = "addToHistory" /\ Trim(last'.arg) # <<>>)
       => /\ ret'.kind = "void"
          /\ historyCache'.set /\ historyCache'.list[1] = Trim(last'.arg)
          /\ \/ /\ historyFile'.exists
                /\ (\A k \in 1..Len(historyCache'.list) : ~HasNewline(historyCache'.list[k]))
                     => LoadHistory(NullCache, historyFile', TRUE) = historyCache'
             \/ historyFile' = historyFile]_vars

\* a history of three commands was written and reads back as it is in memory
C28_Witness ==
  /\ last.ev = "addToHistory"
  /\ Len(historyCache.list) = MAX_HISTORY
  /\ \A k \in 1..Len(historyCache.list) : ~HasNewline(historyCache.list[k])
  /\ historyFile.exists
  /\ ParseHistory(historyFile.content) = historyCache.list

\* C29: getSuggestion returns null for blank input; otherwise, when it
\* returns a suggestion, the input followed by the suggestion is the first
\* command of the history that starts with the input and is not the input,
\* and it returns null when the history has no such command.
C29_SuggestionCompletesInput ==
  [](last.ev = "getSuggestion"
       => LET input == last.arg
              hits  == SelectSeq(historyCache.list,
                         LAMBDA cmd : StartsWith(cmd, input) /\ cmd # input)
          IN  IF Trim(input) = <<>> \/ hits = <<>>
              THEN ret.kind = "null"
              ELSE ret.kind = "string" /\ input \o ret.val = hits[1])
(* ---------------------------------------------------------------------- *)
\* the word the completion is for, and the entries it matches
TypedWord == BaseName(ExpandTilde(LastPart(TrimEnd(last.arg.input))))

\* C25: when the listing was read and getPathCompletion returns a completion,
\* the typed word followed by the completion (without the "/" or the space
\* that closes a single match) is a prefix of the name of every matching
\* entry; with exactly one match the completion is the rest of its name and
\* "/" for a directory, a space for a file.
C25_CompletionExtendsTypedWord ==
  [](last.ev = "getPathCompletion" /\ last.arg.readOk /\ ret.kind = "string"
       => LET matches == Matches(last.arg.entries, TypedWord)
              body    == IF Len(matches) = 1
                         THEN SubSeq(ret.val, 1, Len(ret.val) - 1)
                         ELSE ret.val
          IN  /\ Len(matches) >= 1
              /\ \A k \in 1..Len(matches) : StartsWith(matches[k].name, TypedWord \o body)
              /\ Len(matches) = 1
                   => ret.val[Len(ret.val)] = (IF matches[1].isDir THEN "/" ELSE " "))
(* ---------------------------------------------------------------------- *)
\* the name of the file a path leads to, and whether it names a protected file
OwnName(path) == path[Len(path)]

NamesProtectedFile(path) == \E pf \in protectedFiles : Includes(OwnName(path), pf)

OwnNameIsExample(path) ==
  \E pattern \in allowedPatterns :
    Includes([k \in 1..Len(OwnName(path)) |-> ToLowerToken(OwnName(path)[k])], pattern)

\* C26: a read of a path that names a protected file is rejected with
\* "Access denied" unless the file itself is an example, sample or template
\* file; a call of any other tool is not rejected.
C26_ProtectedReadsRejected ==
  [](last.ev = "tool.execute.before"
       => /\ (last.arg.tool = "read" /\ NamesProtectedFile(last.arg.filePath)
                /\ ~OwnNameIsExample(last.arg.filePath))
               => (ret.kind = "throw"
                     /\ ret.val[1] = "Access denied: Cannot read protected file ")
          /\ last.arg.tool # "read" => ret.kind = "void")
(* ---------------------------------------------------------------------- *)
\* C30: when a call of Editor.open or Editor.openFile is over, however it
\* ended, the renderer is not left suspended and the temporary file is gone;
\* a call made with no editor configured has done nothing to the renderer or
\* the file system.
C30_ResumedAndCleanedUp ==
  [](ed.fn # "none" /\ Settled
       => /\ ~ed.suspended
          /\ ~ed.tmp
          /\ ed.editor = <<>> => ed.ops = <<>>)
====
